---- MODULE Spec2Model ----
(***************************************************************************)
(* Model of the retrieval-and-generation coordinator of the weather        *)
(* assistant (src/ai_services.py): WeatherKnowledgeBase, PineconeManager,   *)
(* ClaudeAI and WeatherRAGSystem.                                           *)
(*                                                                         *)
(* Text is modelled by TLA+ strings; TLC evaluates Len, \o and SubSeq on   *)
(* them, so lower(), split(), the substring test and the f-string prompt   *)
(* are computed character by character as Python computes them.            *)
(* Similarity scores are hundredths (0.8 is 80).                           *)
(* The external services (sentence encoder, Pinecone index, Anthropic      *)
(* client) are the environment: each call's outcome is chosen              *)
(* nondeterministically among "raises" and the values it can return.       *)
(***************************************************************************)
EXTENDS Integers, Sequences, FiniteSets, TLC

VARIABLES
    pc,               \* "new" | "idle" | "generating" | "returned"
    index,            \* PineconeManager.index: "None" | "Index"
    client,           \* ClaudeAI.client: "None" | "Client"
    upload,           \* what upsert_knowledge returned at start-up: "unset" | "True" | "False"
    query,            \* answer_question's query argument
    weather_data,     \* answer_question's weather_data argument
    encoded,          \* TRUE once embedder.encode(query) has returned
    vector_called,    \* TRUE once search_knowledge has been called for this query
    response,         \* what index.query answered for this query, [kind |-> "none"] if not called
    vector_result,    \* what search_knowledge returned
    keyword_called,   \* TRUE once _local_knowledge_search has been called for this query
    keyword_result,   \* what _local_knowledge_search returned
    relevant_context, \* the context argument handed to generate_response
    prompt,           \* the prompt assembled by generate_response: [ok, val]
    result,           \* what crosses answer_question's boundary: [kind, value]
    kb,               \* knowledge_base.knowledge_data: the ids of its items, in list order
    pinecone_init,    \* _initialize_pinecone so far: [attempts, outcome]
    index_io,         \* network calls to the index attempted by the operation in progress
    llm_calls,        \* calls of client.messages.create made by this generate_response
    completion,       \* what client.messages.create answered, [kind |-> "none"] if not called
    calls,            \* the concurrent answer_question calls in flight, by call number
    variants          \* the keyword search of a query and of its upper- and lower-cased forms

vars == <<pc, index, client, upload, query, weather_data, encoded, vector_called,
          response, vector_result, keyword_called, keyword_result, relevant_context, prompt,
          result, kb, pinecone_init, index_io, llm_calls, completion, calls, variants>>

(***************************************************************************)
(* Bounds of the model.                                                    *)
(***************************************************************************)
\* the external index returns at most this many matches in one response
MaxMatches == 4

\* the queries whose three case variants are compared have at most this many
\* characters
MaxQueryLen == 2

\* at most this many answer_question calls are in flight at once
MaxCalls == 2

(***************************************************************************)
(* Python strings.                                                         *)
(***************************************************************************)
\* The strings of the model hold characters up to U+00FF.  These are the
\* cased letters of that range that str.lower() and str.upper() map onto each
\* other, position by position.
UpperLetters == "ABCDEFGHIJKLMNOPQRSTUVWXYZÀÁÂÃÄÅÆÇÈÉÊËÌÍÎÏÐÑÒÓÔÕÖØÙÚÛÜÝÞ"
LowerLetters == "abcdefghijklmnopqrstuvwxyzàáâãäåæçèéêëìíîïðñòóôõöøùúûüýþ"

\* str.lower() on one character up to U+00FF: an upper-case letter maps to its
\* lower-case letter, every other character (digits, punctuation, blanks, the
\* degree sign, the lower-case letters) is unchanged
ToLower == [i \in 1..Len(LowerLetters) |-> SubSeq(LowerLetters, i, i)]
UpperIndex == [c \in {SubSeq(UpperLetters, i, i) : i \in 1..Len(UpperLetters)} |->
                 CHOOSE j \in 1..Len(UpperLetters) : SubSeq(UpperLetters, j, j) = c]

LowerChar(c) == IF c \in DOMAIN UpperIndex THEN ToLower[UpperIndex[c]] ELSE c

RECURSIVE Lower(_)
\* str.lower(): every character lower-cased, in place (computed by halves, which
\* keeps the evaluation shallow on the corpus texts)
Lower(s) ==
    IF Len(s) = 0 THEN ""
    ELSE IF Len(s) = 1 THEN LowerChar(s)
    ELSE LET h == Len(s) \div 2
         IN Lower(SubSeq(s, 1, h)) \o Lower(SubSeq(s, h + 1, Len(s)))

\* str.upper() on one character up to U+00FF: a lower-case letter maps to its
\* upper-case letter; the sharp s has no single upper-case character and
\* becomes "SS"; every other character is unchanged.  The micro sign (U+00B5)
\* and y with diaeresis (U+00FF) have upper-case forms above U+00FF, which
\* the strings of the model cannot hold: no arm of the CASE covers them, and
\* the operator has no value there.
UpperChar(c) ==
    CASE c = "ß" -> "SS"
      [] \E i \in 1..Len(LowerLetters) : SubSeq(LowerLetters, i, i) = c ->
            LET i == CHOOSE j \in 1..Len(LowerLetters) : SubSeq(LowerLetters, j, j) = c
            IN SubSeq(UpperLetters, i, i)
      [] /\ c # "ß"
         /\ c \notin {"µ", "ÿ"}
         /\ \A i \in 1..Len(LowerLetters) : SubSeq(LowerLetters, i, i) # c -> c

RECURSIVE Upper(_)
\* str.upper(): every character upper-cased; the result may be longer.  It
\* has a value on the strings that hold neither U+00B5 nor U+00FF.
Upper(s) ==
    IF Len(s) = 0 THEN ""
    ELSE IF Len(s) = 1 THEN UpperChar(s)
    ELSE LET h == Len(s) \div 2
         IN Upper(SubSeq(s, 1, h)) \o Upper(SubSeq(s, h + 1, Len(s)))

\* the characters up to U+00FF that str.split() treats as separators: the
\* blank, tab, line feed, carriage return and form feed, then the vertical tab
\* (U+000B), the four information separators (U+001C to U+001F), the next-line
\* control (U+0085) and the no-break space (U+00A0)
IsSpace(c) ==
    c \in {" ", "\t", "\n", "\r", "\f",
           "", "", "", "", "", "", " "}

\* str.split() with no argument: the maximal runs of non-blank characters, in
\* order; leading, trailing and repeated blanks produce no empty word
Split(s) ==
    LET n       == Len(s)
        blank(i) == IsSpace(SubSeq(s, i, i))
        starts  == {i \in 1..n : ~blank(i) /\ (i = 1 \/ blank(i - 1))}
        ends    == {i \in 1..n : ~blank(i) /\ (i = n \/ blank(i + 1))}
        \* the k-th smallest element of a set of positions
        kth(S, k) == CHOOSE x \in S : Cardinality({y \in S : y < x}) = k - 1
    IN [k \in 1..Cardinality(starts) |-> SubSeq(s, kth(starts, k), kth(ends, k))]

\* Python's `needle in hay` on strings
Contains(hay, needle) ==
    \E i \in 1..(Len(hay) - Len(needle) + 1) :
        SubSeq(hay, i, i + Len(needle) - 1) = needle

Digits == "0123456789"

RECURSIVE NatToStr(_)
NatToStr(n) ==
    IF n < 10 THEN SubSeq(Digits, n + 1, n + 1)
    ELSE NatToStr(n \div 10) \o SubSeq(Digits, (n % 10) + 1, (n % 10) + 1)

(***************************************************************************)
(* WeatherKnowledgeBase: the curated corpus, in the order of the source.   *)
(* The auxiliary tags (temperature_range, weather_condition, topic,        *)
(* location) are read by no operation modelled here and are left out.      *)
(***************************************************************************)
knowledge_data == <<
    [id |-> "temp_clothing_cold", category |-> "clothing",
     content |-> "When temperatures are below 32°F (0°C), wear insulated layers, warm coat, gloves, hat, and waterproof boots. Consider thermal underwear for extended outdoor exposure."],
    [id |-> "temp_clothing_cool", category |-> "clothing",
     content |-> "For temperatures 32-60°F (0-15°C), wear a light jacket or sweater, long pants, and closed-toe shoes. Layers are recommended for temperature changes."],
    [id |-> "temp_clothing_mild", category |-> "clothing",
     content |-> "At 60-75°F (15-24°C), light clothing like t-shirts, light sweaters, jeans or light pants work well. Perfect for most outdoor activities."],
    [id |-> "temp_clothing_warm", category |-> "clothing",
     content |-> "For 75-85°F (24-29°C), wear light, breathable clothing like cotton t-shirts, shorts, sundresses, and sandals. Stay hydrated."],
    [id |-> "temp_clothing_hot", category |-> "clothing",
     content |-> "Above 85°F (29°C), wear minimal, light-colored, loose-fitting clothing. Use sun protection, stay in shade when possible, and drink plenty of water."],
    [id |-> "rain_safety", category |-> "safety",
     content |-> "During rain, carry an umbrella or wear waterproof clothing. Drive carefully with reduced speed and increased following distance. Avoid flooded roads."],
    [id |-> "snow_safety", category |-> "safety",
     content |-> "In snow conditions, wear appropriate footwear with good traction. Drive slowly and keep emergency supplies in your car. Clear snow from vehicle before driving."],
    [id |-> "humidity_effects", category |-> "weather_science",
     content |-> "High humidity (above 60%) makes temperatures feel warmer and can cause discomfort. Low humidity (below 30%) can cause dry skin and respiratory irritation."],
    [id |-> "wind_chill", category |-> "weather_science",
     content |-> "Wind chill occurs when wind speed combines with cold temperatures to make it feel colder than actual temperature. Important for exposed skin safety."],
    [id |-> "heat_index", category |-> "weather_science",
     content |-> "Heat index combines air temperature and humidity to determine perceived temperature. Values above 90°F indicate caution needed for outdoor activities."],
    [id |-> "denver_altitude", category |-> "location_specific",
     content |-> "Denver's high altitude (5,280 feet) affects weather: lower air pressure, intense UV rays, rapid temperature changes, and dry air. Stay hydrated and use sun protection."],
    [id |-> "chicago_lake_effect", category |-> "location_specific",
     content |-> "Chicago experiences lake effect from Lake Michigan, creating cooler summers and moderating winter temperatures. Can cause sudden weather changes."],
    [id |-> "los_angeles_marine_layer", category |-> "location_specific",
     content |-> "Los Angeles often has marine layer fog in mornings, especially in summer. Creates overcast conditions that typically clear by afternoon."] >>

(***************************************************************************)
(* WeatherRAGSystem._local_knowledge_search                                *)
(***************************************************************************)
\* the list _load_weather_knowledge returns, by item id
load_weather_knowledge == [i \in 1..Len(knowledge_data) |-> knowledge_data[i].id]

\* the default of the top_k parameter of both retrieval functions
top_k_default == 3

\* the score given to every keyword match (0.8)
local_score == 80

\* Lower on the corpus texts, evaluated once: the loop lower-cases the same
\* thirteen contents and categories on every call
LoweredCorpus ==
    [s \in {knowledge_data[i].content : i \in 1..Len(knowledge_data)}
            \cup {knowledge_data[i].category : i \in 1..Len(knowledge_data)} |-> Lower(s)]

\* item_matches with all() in place of any(): no word at all matches every item
item_matches_all(item, words) ==
    LET content_lower  == LoweredCorpus[item.content]
        category_lower == LoweredCorpus[item.category]
    IN \A w \in 1..Len(words) :
          Contains(content_lower, words[w]) \/ Contains(category_lower, words[w])

\* the test of the loop body: any(word in content_lower or word in category_lower
\*                               for word in query_lower.split())
item_matches(item, words) ==
    LET content_lower  == LoweredCorpus[item.content]
        category_lower == LoweredCorpus[item.category]
    IN \E w \in 1..Len(words) :
          Contains(content_lower, words[w]) \/ Contains(category_lower, words[w])

\* the passage appended for a matching item
local_passage(item) ==
    [content |-> item.content, score |-> local_score, category |-> item.category]

RECURSIVE relevant_items_from(_, _)
relevant_items_from(words, i) ==
    IF i > Len(knowledge_data) THEN <<>>
    ELSE (IF item_matches(knowledge_data[i], words)
          THEN <<local_passage(knowledge_data[i])>> ELSE <<>>)
         \o relevant_items_from(words, i + 1)

\* Truncate without the slice: the whole list
TruncateNone(seq, k) == seq

\* Python's seq[:k] for k >= 0
Truncate(seq, k) == SubSeq(seq, 1, IF Len(seq) < k THEN Len(seq) ELSE k)

\* local_knowledge_search with relevant_items[-top_k:]: the last matches kept
local_knowledge_search_last(q, top_k) ==
    LET items == relevant_items_from(Split(Lower(q)), 1)
    IN SubSeq(items, IF Len(items) > top_k THEN Len(items) - top_k + 1 ELSE 1, Len(items))

local_knowledge_search(q, top_k) ==
    Truncate(relevant_items_from(Split(Lower(q)), 1), top_k)

\* the items a list of ids stands for
ItemById ==
    [id \in {knowledge_data[i].id : i \in 1..Len(knowledge_data)} |->
        knowledge_data[CHOOSE i \in 1..Len(knowledge_data) : knowledge_data[i].id = id]]

RECURSIVE relevant_items_in(_, _, _)
\* the loop of _local_knowledge_search over the list the knowledge base holds
\* when the call runs
relevant_items_in(corpus, words, i) ==
    IF i > Len(corpus) THEN <<>>
    ELSE (IF item_matches(ItemById[corpus[i]], words)
          THEN <<local_passage(ItemById[corpus[i]])>> ELSE <<>>)
         \o relevant_items_in(corpus, words, i + 1)

\* _local_knowledge_search reading self.knowledge_base.knowledge_data
local_knowledge_search_in(corpus, q, top_k) ==
    Truncate(relevant_items_in(corpus, Split(Lower(q)), 1), top_k)

\* a keyword search that takes the items it matched out of the shared list
corpus_after_search_consuming(corpus, q) ==
    LET words == Split(Lower(q))
        kept  == {i \in 1..Len(corpus) : ~item_matches(ItemById[corpus[i]], words)}
        kth(k) == CHOOSE x \in kept : Cardinality({y \in kept : y < x}) = k - 1
    IN [k \in 1..Cardinality(kept) |-> corpus[kth(k)]]

\* knowledge_data after _local_knowledge_search: the loop only reads the items
\* and appends to its own local list
corpus_after_search(corpus, q) == corpus

(***************************************************************************)
(* Python values that reach the prompt: None, str, int and dict.           *)
(***************************************************************************)
PyNone == [t |-> "none"]
PyStr(s) == [t |-> "str", s |-> s]
PyInt(n) == [t |-> "int", n |-> n]
PyDict(d) == [t |-> "dict", d |-> d]

\* what an f-string writes for {v}: str(v)
Format(v) ==
    CASE v.t = "none" -> "None"
      [] v.t = "str"  -> v.s
      [] v.t = "int"  -> IF v.n < 0 THEN "-" \o NatToStr(-v.n) ELSE NatToStr(v.n)

\* Python truth value of an Optional[Dict]: None and {} are false
Truthy(v) ==
    CASE v.t = "none" -> FALSE
      [] v.t = "dict" -> DOMAIN v.d # {}

\* dict.get(key, default): the stored value (None included) when the key is
\* present, the default only when the key is missing
dict_get(d, key, default) == IF key \in DOMAIN d THEN d[key] ELSE default

\* outcome of a computation that may raise
Ok(v) == [ok |-> TRUE, val |-> v]
Raise(msg) == [ok |-> FALSE, exc |-> msg]

(***************************************************************************)
(* PineconeManager                                                         *)
(***************************************************************************)
\* __init__ and _initialize_pinecone: the index handle is set only when the key
\* is present and no call of the initialization raises
initialize_pinecone(api_key, init) ==
    IF api_key /\ init = "ok" THEN "Index" ELSE "None"

\* no _initialize_pinecone has run
NoInit == [attempts |-> 0, outcome |-> "none"]

\* __init__: _initialize_pinecone runs once when the key is present, never
\* otherwise; no other method calls it
init_runs(api_key, init) ==
    IF api_key THEN [attempts |-> 1, outcome |-> init] ELSE NoInit

\* upsert_knowledge's calls of index.upsert: none without an index, none when
\* create_embeddings raises before the call
upsert_io(idx, upsert) ==
    IF idx = "None" THEN 0
    ELSE IF upsert = "embed_raise" THEN 0 ELSE 1

\* search_knowledge that queries the service whether or not it holds an index
search_io_always(idx) == 1

\* search_knowledge's calls of index.query: none without an index
search_io(idx) == IF idx = "None" THEN 0 ELSE 1

\* upsert_knowledge: False without an index, False when create_embeddings or
\* index.upsert raises, True otherwise; self.index is not assigned
upsert_knowledge(idx, upsert) ==
    IF idx = "None" THEN "False"
    ELSE IF upsert \in {"embed_raise", "raise"} THEN "False" ELSE "True"

\* one element of the comprehension over results["matches"]
match_passage(m) ==
    [content |-> m.metadata.content, score |-> m.score, category |-> m.metadata.category]

RECURSIVE sorted_by_score(_)
\* passages re-ranked by descending score
sorted_by_score(ps) ==
    IF Len(ps) <= 1 THEN ps
    ELSE LET i == CHOOSE i \in 1..Len(ps) :
                     /\ \A j \in 1..Len(ps) : ps[j].score <= ps[i].score
                     /\ \A j \in 1..(i - 1) : ps[j].score < ps[i].score
         IN <<ps[i]>> \o sorted_by_score(SubSeq(ps, 1, i - 1) \o SubSeq(ps, i + 1, Len(ps)))

\* search_knowledge that sorts what the index returned
search_knowledge_sorted(idx, outcome) ==
    IF idx = "None" THEN <<>>
    ELSE IF outcome.kind = "raise" THEN <<>>
    ELSE IF \E i \in 1..Len(outcome.matches) : "metadata" \notin DOMAIN outcome.matches[i]
         THEN <<>>
    ELSE sorted_by_score([i \in 1..Len(outcome.matches) |-> match_passage(outcome.matches[i])])

\* search_knowledge: [] without an index, [] when index.query raises or a match
\* lacks its metadata (KeyError inside the try), else one passage per match, in
\* the order of results["matches"]
search_knowledge(idx, outcome) ==
    IF idx = "None" THEN <<>>
    ELSE IF outcome.kind = "raise" THEN <<>>
    ELSE IF \E i \in 1..Len(outcome.matches) : "metadata" \notin DOMAIN outcome.matches[i]
         THEN <<>>
    ELSE [i \in 1..Len(outcome.matches) |-> match_passage(outcome.matches[i])]

(***************************************************************************)
(* ClaudeAI.generate_response                                              *)
(***************************************************************************)
NotConfiguredMessage == "AI service is not configured. Please set up your Anthropic API key."

GenerateErrorPrefix == "Sorry, I encountered an error generating a response: "

RECURSIVE join_bullets(_, _)
\* "\n".join([f"- {item['content']}" for item in context]), from item i on
join_bullets(context, i) ==
    IF i > Len(context) THEN ""
    ELSE "- " \o context[i].content
         \o (IF i < Len(context) THEN "\n" ELSE "")
         \o join_bullets(context, i + 1)

context_text(context) == join_bullets(context, 1)

\* the f-string of the weather block; weather_data.get on None raises
weather_block(wd) ==
    IF wd.t # "dict" THEN Raise("'NoneType' object has no attribute 'get'")
    ELSE Ok("\nCurrent Weather Data:\n"
            \o "- Location: " \o Format(dict_get(wd.d, "city", PyStr("Unknown"))) \o "\n"
            \o "- Temperature: " \o Format(dict_get(wd.d, "temperature", PyStr("N/A"))) \o "°F\n"
            \o "- Weather: " \o Format(dict_get(wd.d, "weather", PyStr("N/A"))) \o "\n"
            \o "- Humidity: " \o Format(dict_get(wd.d, "humidity", PyStr("N/A"))) \o "%\n"
            \o "- Wind Speed: " \o Format(dict_get(wd.d, "wind_speed", PyStr("N/A"))) \o " mph\n")

\* weather_context without the `if weather_data:` guard
weather_context_unguarded(wd) == weather_block(wd)

\* weather_context = "" unless `if weather_data:` holds
weather_context(wd) == IF Truthy(wd) THEN weather_block(wd) ELSE Ok("")

PromptHead == "You are a helpful weather assistant. Answer the user's weather-related question using the provided context and current weather data.\n\n"

PromptTail == "\n\nProvide a helpful, accurate, and conversational response. If asking about current weather, use the current weather data. If asking about clothing recommendations or safety, use the relevant knowledge. Keep responses concise but informative."

\* the prompt f-string, or the exception raised while assembling it
build_prompt(q, context, wd) ==
    LET wc == weather_context(wd)
    IN IF ~wc.ok THEN wc
       ELSE Ok(PromptHead \o wc.val \o "\n\nRelevant Knowledge:\n" \o context_text(context)
               \o "\n\nUser Question: " \o q \o PromptTail)

\* message.content[0].text, IndexError on an empty content list
first_text(content) ==
    IF Len(content) = 0 THEN Raise("list index out of range") ELSE Ok(content[1].text)

\* generate_response that calls the backend a second time when the first call
\* raises (the second call meets the same outcome)
generate_response_retry(q, context, wd, cl, gen) ==
    IF cl = "None"
    THEN [answer |-> NotConfiguredMessage, prompt |-> [state |-> "none"], calls |-> 0]
    ELSE LET p == build_prompt(q, context, wd)
         IN IF ~p.ok
            THEN [answer |-> GenerateErrorPrefix \o p.exc,
                  prompt |-> [state |-> "failed", exc |-> p.exc], calls |-> 0]
            ELSE LET built == [state |-> "built", text |-> p.val]
                 IN IF gen.kind = "raise"
                    THEN [answer |-> GenerateErrorPrefix \o gen.msg, prompt |-> built,
                          calls |-> 2]
                    ELSE LET t == first_text(gen.content)
                         IN IF t.ok
                            THEN [answer |-> t.val, prompt |-> built, calls |-> 1]
                            ELSE [answer |-> GenerateErrorPrefix \o t.exc, prompt |-> built,
                                  calls |-> 1]

\* generate_response: [answer, prompt, calls].  gen is the outcome of
\* client.messages.create, consulted only when the call is made; calls counts
\* the calls of client.messages.create
generate_response(q, context, wd, cl, gen) ==
    IF cl = "None"
    THEN [answer |-> NotConfiguredMessage, prompt |-> [state |-> "none"], calls |-> 0]
    ELSE LET p == build_prompt(q, context, wd)
         IN IF ~p.ok
            THEN [answer |-> GenerateErrorPrefix \o p.exc,
                  prompt |-> [state |-> "failed", exc |-> p.exc], calls |-> 0]
            ELSE LET built == [state |-> "built", text |-> p.val]
                 IN IF gen.kind = "raise"
                    THEN [answer |-> GenerateErrorPrefix \o gen.msg, prompt |-> built,
                          calls |-> 1]
                    ELSE LET t == first_text(gen.content)
                         IN IF t.ok
                            THEN [answer |-> t.val, prompt |-> built, calls |-> 1]
                            ELSE [answer |-> GenerateErrorPrefix \o t.exc, prompt |-> built,
                                  calls |-> 1]

(***************************************************************************)
(* WeatherRAGSystem.answer_question                                        *)
(***************************************************************************)
\* retrieve that always runs the keyword search and appends its result
retrieve_merged(vec, q) ==
    LET kw == local_knowledge_search(q, top_k_default)
    IN [keyword_called |-> TRUE, keyword_result |-> kw, relevant_context |-> vec \o kw]

\* lines 283-288: the keyword search runs only when the vector result is falsy,
\* and its result then replaces the vector result
retrieve(vec, q) ==
    IF Len(vec) = 0
    THEN LET kw == local_knowledge_search(q, top_k_default)
         IN [keyword_called |-> TRUE, keyword_result |-> kw, relevant_context |-> kw]
    ELSE [keyword_called |-> FALSE, keyword_result |-> <<>>, relevant_context |-> vec]

\* lines 283-288 over the list the knowledge base holds when the call runs:
\* [relevant_context, corpus]
retrieve_in(corpus, vec, q) ==
    IF Len(vec) = 0
    THEN [relevant_context |-> local_knowledge_search_in(corpus, q, top_k_default),
          corpus |-> corpus_after_search(corpus, q)]
    ELSE [relevant_context |-> vec, corpus |-> corpus]

\* answer_question without its try/except: the exception reaches the caller
outer_reraise(msg) == [kind |-> "raise", exc |-> msg]

\* the except clause of answer_question: the exception becomes the answer
outer_except(msg) ==
    [kind |-> "return", value |-> "Sorry, I couldn't process your question: " \o msg]

\* `return response`
return_response(answer) == [kind |-> "return", value |-> answer]

(***************************************************************************)
(* The environment: the inputs and the outcomes of the external calls.     *)
(***************************************************************************)
DenverQuery == "What should I wear in Denver today?"

\* the last query separates its two words with a vertical tab
Queries == {DenverQuery, "", " \t ", "SNOW tires", "xyzzy", "rainxyzzy"}

\* the reading of scenario A
DenverReading ==
    PyDict([k \in {"city", "temperature", "weather", "humidity", "wind_speed"} |->
              CASE k = "city" -> PyStr("Denver")
                [] k = "temperature" -> PyInt(28)
                [] k = "weather" -> PyStr("clear")
                [] k = "humidity" -> PyInt(20)
                [] k = "wind_speed" -> PyInt(5)])

\* a reading with three fields missing and one null
PartialReading ==
    PyDict([k \in {"city", "temperature"} |-> IF k = "city" THEN PyStr("Denver") ELSE PyNone])

WeatherFields == {"city", "temperature", "weather", "humidity", "wind_speed"}

\* absent, empty, complete, partial, all five fields null, all five fields
\* missing from a reading that holds another key
WeatherReadings ==
    { PyNone, PyDict(<<>>), DenverReading, PartialReading,
      PyDict([k \in WeatherFields |-> PyNone]),
      PyDict([k \in {"country"} |-> PyStr("US")]) }

\* str(e) of the exceptions the external calls raise
ErrorTexts == {"", "Connection error."}

\* upsert_knowledge past its guard: success, create_embeddings raising, or
\* index.upsert raising
UpsertOutcomes == {"ok", "embed_raise", "raise"}

EncodeOutcomes == {[kind |-> "ok"]} \cup {[kind |-> "raise", msg |-> m] : m \in ErrorTexts}

\* what the external index can put in results["matches"]: the matches of
\* scenario C, in any order and number up to MaxMatches, and responses holding
\* a match without metadata
Match(i, sc) ==
    [metadata |-> [content |-> knowledge_data[i].content,
                   category |-> knowledge_data[i].category],
     score |-> sc]

MatchUniverse == {Match(1, 91), Match(11, 85), Match(7, 60)}

BadMatch == [score |-> 50]

MatchLists ==
    UNION {[1..n -> MatchUniverse] : n \in 0..MaxMatches}
    \cup {<<BadMatch>>, <<Match(1, 91), BadMatch>>}

QueryOutcomes == {[kind |-> "raise"]} \cup {[kind |-> "ok", matches |-> ms] : ms \in MatchLists}

Completions == {"", "Wear insulated layers and stay hydrated."}

GenOutcomes ==
    {[kind |-> "raise", msg |-> m] : m \in ErrorTexts}
    \cup {[kind |-> "ok", content |-> <<>>]}
    \cup {[kind |-> "ok", content |-> <<[type |-> "text", text |-> c]>>] : c \in Completions}

(***************************************************************************)
(* The state machine.                                                      *)
(***************************************************************************)
NoResponse == [kind |-> "none"]
NoPrompt == [state |-> "none"]
NoResult == [kind |-> "none"]

Init == /\ pc = "new"
        /\ index = "None"
        /\ client = "None"
        /\ upload = "unset"
        /\ query = ""
        /\ weather_data = PyNone
        /\ encoded = FALSE
        /\ vector_called = FALSE
        /\ response = NoResponse
        /\ vector_result = <<>>
        /\ keyword_called = FALSE
        /\ keyword_result = <<>>
        /\ relevant_context = <<>>
        /\ prompt = NoPrompt
        /\ result = NoResult
        /\ kb = <<>>
        /\ pinecone_init = NoInit
        /\ index_io = 0
        /\ llm_calls = 0
        /\ completion = NoResponse
        /\ calls = <<>>
        /\ variants = <<>>

\* WeatherRAGSystem.__init__: PineconeManager(), ClaudeAI(), then
\* _setup_knowledge_base, whose upload result is only printed
Construct ==
    /\ pc = "new"
    /\ \E pinecone_key \in BOOLEAN, init \in {"ok", "raise"},
          anthropic_key \in BOOLEAN, upsert \in UpsertOutcomes :
          LET idx == initialize_pinecone(pinecone_key, init)
          IN /\ index' = idx
             /\ pinecone_init' = init_runs(pinecone_key, init)
             /\ client' = (IF anthropic_key THEN "Client" ELSE "None")
             /\ upload' = upsert_knowledge(idx, upsert)
             /\ index_io' = upsert_io(idx, upsert)
    /\ kb' = load_weather_knowledge
    /\ pc' = "idle"
    /\ UNCHANGED <<query, weather_data, encoded, vector_called, response, vector_result,
                   keyword_called, keyword_result, relevant_context, prompt, result,
                   llm_calls, completion, calls, variants>>

\* answer_question up to the await: encode, search_knowledge, the fallback
AnswerBegin ==
    /\ pc = "idle"
    /\ \E q \in Queries, wd \in WeatherReadings, enc \in EncodeOutcomes :
          /\ query' = q
          /\ weather_data' = wd
          /\ IF enc.kind = "raise"
             THEN /\ result' = outer_except(enc.msg)
                  /\ pc' = "returned"
                  /\ index_io' = 0
                  /\ UNCHANGED <<encoded, vector_called, response, vector_result,
                                 keyword_called, keyword_result, relevant_context>>
             ELSE \E out \in (IF index = "None" THEN {NoResponse} ELSE QueryOutcomes) :
                     LET vec == search_knowledge(index, out)
                         r   == retrieve(vec, q)
                     IN /\ encoded' = TRUE
                        /\ vector_called' = TRUE
                        /\ response' = out
                        /\ vector_result' = vec
                        /\ keyword_called' = r.keyword_called
                        /\ keyword_result' = r.keyword_result
                        /\ relevant_context' = r.relevant_context
                        /\ index_io' = search_io(index)
                        /\ pc' = "generating"
                        /\ UNCHANGED result
    /\ UNCHANGED <<index, client, upload, prompt, kb, pinecone_init, llm_calls,
                   completion, calls, variants>>

\* the awaited generate_response and `return response`
AnswerGenerate ==
    /\ pc = "generating"
    /\ \E gen \in (IF client = "None" THEN {NoResponse} ELSE GenOutcomes) :
          LET g == generate_response(query, relevant_context, weather_data, client, gen)
          IN /\ prompt' = g.prompt
             /\ llm_calls' = g.calls
             /\ completion' = (IF g.calls = 0 THEN NoResponse ELSE gen)
             /\ result' = return_response(g.answer)
    /\ pc' = "returned"
    /\ UNCHANGED <<index, client, upload, query, weather_data, encoded, vector_called,
                   response, vector_result, keyword_called, keyword_result,
                   relevant_context, kb, pinecone_init, index_io, calls, variants>>

\* the caller has the answer; the query's intermediate values are dropped
AnswerDone ==
    /\ pc = "returned"
    /\ pc' = "idle"
    /\ query' = ""
    /\ weather_data' = PyNone
    /\ encoded' = FALSE
    /\ vector_called' = FALSE
    /\ response' = NoResponse
    /\ vector_result' = <<>>
    /\ keyword_called' = FALSE
    /\ keyword_result' = <<>>
    /\ relevant_context' = <<>>
    /\ prompt' = NoPrompt
    /\ result' = NoResult
    /\ index_io' = 0
    /\ llm_calls' = 0
    /\ completion' = NoResponse
    /\ UNCHANGED <<index, client, upload, kb, pinecone_init, calls, variants>>

Next == Construct \/ AnswerBegin \/ AnswerGenerate \/ AnswerDone

Spec == Init /\ [][Next]_vars

(***************************************************************************)
(* PineconeManager on its own: construction, then upsert_knowledge and     *)
(* search_knowledge called in any order, any number of times.              *)
(***************************************************************************)
InitIndex ==
    /\ pc = "pm_new"
    /\ index = "None"
    /\ client = "None"
    /\ upload = "unset"
    /\ query = ""
    /\ weather_data = PyNone
    /\ encoded = FALSE
    /\ vector_called = FALSE
    /\ response = NoResponse
    /\ vector_result = <<>>
    /\ keyword_called = FALSE
    /\ keyword_result = <<>>
    /\ relevant_context = <<>>
    /\ prompt = NoPrompt
    /\ result = NoResult
    /\ kb = load_weather_knowledge
    /\ pinecone_init = NoInit
    /\ index_io = 0
    /\ llm_calls = 0
    /\ completion = NoResponse
    /\ calls = <<>>
    /\ variants = <<>>

\* PineconeManager(): the environment decides whether the key is present and
\* whether the initialization raises
ManagerConstruct ==
    /\ pc = "pm_new"
    /\ \E pinecone_key \in BOOLEAN, init \in {"ok", "raise"} :
          /\ index' = initialize_pinecone(pinecone_key, init)
          /\ pinecone_init' = init_runs(pinecone_key, init)
    /\ pc' = "pm_idle"
    /\ UNCHANGED <<client, upload, query, weather_data, encoded, vector_called, response,
                   vector_result, keyword_called, keyword_result, relevant_context, prompt,
                   result, kb, index_io, llm_calls, completion, calls, variants>>

\* one call of upsert_knowledge
UpsertCall ==
    /\ pc \in {"pm_idle", "pm_upserted", "pm_searched"}
    /\ \E upsert \in UpsertOutcomes :
          /\ upload' = upsert_knowledge(index, upsert)
          /\ index_io' = upsert_io(index, upsert)
    /\ pc' = "pm_upserted"
    /\ UNCHANGED <<index, client, query, weather_data, encoded, vector_called, response,
                   vector_result, keyword_called, keyword_result, relevant_context, prompt,
                   result, kb, pinecone_init, llm_calls, completion, calls, variants>>

\* one call of search_knowledge
SearchCall ==
    /\ pc \in {"pm_idle", "pm_upserted", "pm_searched"}
    /\ \E out \in (IF index = "None" THEN {NoResponse} ELSE QueryOutcomes) :
          /\ response' = out
          /\ vector_result' = search_knowledge(index, out)
    /\ vector_called' = TRUE
    /\ index_io' = search_io(index)
    /\ pc' = "pm_searched"
    /\ UNCHANGED <<index, client, upload, query, weather_data, encoded, keyword_called,
                   keyword_result, relevant_context, prompt, result, kb, pinecone_init,
                   llm_calls, completion, calls, variants>>

NextIndex == ManagerConstruct \/ UpsertCall \/ SearchCall

SpecIndex == InitIndex /\ [][NextIndex]_vars

(***************************************************************************)
(* Concurrent answer_question calls on one WeatherRAGSystem.  A call runs   *)
(* without interruption up to `await self.claude_ai.generate_response`,    *)
(* where other calls may start or resume; at most MaxCalls are in flight.  *)
(***************************************************************************)
ConcQueries == {"SNOW tires", "rain"}

ConcResponses ==
    {[kind |-> "raise"], [kind |-> "ok", matches |-> <<>>],
     [kind |-> "ok", matches |-> <<Match(1, 91)>>]}

ConcCompletions ==
    {[kind |-> "raise", msg |-> "Connection error."],
     [kind |-> "ok", content |-> <<[type |-> "text", text |-> "Wear insulated layers and stay hydrated."]>>]}

\* a call number with no call in flight
IdleCall == [pc |-> "idle", query |-> "", response |-> NoResponse, relevant_context |-> <<>>]

\* a constructed system with no call in flight: what __init__ leaves for any
\* presence of the two keys and any outcome of the initialization and of the
\* start-up upsert, either fresh or after earlier calls have returned
InitConc ==
    /\ pc = "serving"
    /\ \E pinecone_key \in BOOLEAN, init \in {"ok", "raise"},
          anthropic_key \in BOOLEAN, upsert \in UpsertOutcomes :
          LET idx == initialize_pinecone(pinecone_key, init)
          IN /\ index = idx
             /\ pinecone_init = init_runs(pinecone_key, init)
             /\ client = (IF anthropic_key THEN "Client" ELSE "None")
             /\ upload = upsert_knowledge(idx, upsert)
             /\ index_io \in {upsert_io(idx, upsert), 0}
    /\ query = ""
    /\ weather_data = PyNone
    /\ encoded = FALSE
    /\ vector_called = FALSE
    /\ response = NoResponse
    /\ vector_result = <<>>
    /\ keyword_called = FALSE
    /\ keyword_result = <<>>
    /\ relevant_context = <<>>
    /\ prompt = NoPrompt
    /\ result = NoResult
    /\ kb = load_weather_knowledge
    /\ llm_calls = 0
    /\ completion = NoResponse
    /\ calls = [i \in 1..MaxCalls |-> IdleCall]
    /\ variants = <<>>

\* call i of answer_question up to the await: encode, search_knowledge, the
\* fallback over the shared knowledge base; an encode failure returns at once
CallBegin(i) ==
    /\ calls[i].pc = "idle"
    /\ \E q \in ConcQueries, enc \in {[kind |-> "ok"], [kind |-> "raise", msg |-> ""]} :
          IF enc.kind = "raise"
          THEN /\ result' = outer_except(enc.msg)
               /\ index_io' = 0
               /\ UNCHANGED <<calls, kb>>
          ELSE \E out \in (IF index = "None" THEN {NoResponse} ELSE ConcResponses) :
                  LET r == retrieve_in(kb, search_knowledge(index, out), q)
                  IN /\ calls' = [calls EXCEPT ![i] =
                                     [pc |-> "suspended", query |-> q, response |-> out,
                                      relevant_context |-> r.relevant_context]]
                     /\ kb' = r.corpus
                     /\ index_io' = search_io(index)
                     /\ UNCHANGED result
    /\ UNCHANGED <<pc, index, client, upload, query, weather_data, encoded, vector_called,
                   response, vector_result, keyword_called, keyword_result,
                   relevant_context, prompt, pinecone_init, llm_calls, completion,
                   variants>>

\* call i resumes: generate_response completes and the answer is returned
CallResume(i) ==
    /\ calls[i].pc = "suspended"
    /\ \E gen \in (IF client = "None" THEN {NoResponse} ELSE ConcCompletions) :
          result' = return_response(
                        generate_response(calls[i].query, calls[i].relevant_context,
                                          PyNone, client, gen).answer)
    /\ calls' = [calls EXCEPT ![i] = IdleCall]
    /\ index_io' = 0
    /\ UNCHANGED <<pc, index, client, upload, query, weather_data, encoded, vector_called,
                   response, vector_result, keyword_called, keyword_result,
                   relevant_context, prompt, kb, pinecone_init, llm_calls, completion,
                   variants>>

NextConc == \E i \in 1..MaxCalls : CallBegin(i) \/ CallResume(i)

SpecConc == InitConc /\ [][NextConc]_vars

(***************************************************************************)
(* _local_knowledge_search on a query and on its two case variants: the    *)
(* query is any string of at most MaxQueryLen characters of CaseAlphabet.  *)
(***************************************************************************)
\* letters of both cases, a blank, a no-break space, and the sharp s, whose
\* upper-case form str.lower() does not map back
CaseAlphabet == {"s", "S", "w", "e", "É", " ", " ", "ß"}

RECURSIVE StringsUpTo(_)
StringsUpTo(n) ==
    IF n = 0 THEN {""}
    ELSE LET shorter == StringsUpTo(n - 1)
         IN shorter \cup {t \o c : t \in shorter, c \in CaseAlphabet}

CaseQueries == StringsUpTo(MaxQueryLen)

NoVariants == <<>>

InitCase ==
    /\ pc = "case_query"
    /\ query \in CaseQueries
    /\ index = "None"
    /\ client = "None"
    /\ upload = "False"
    /\ weather_data = PyNone
    /\ encoded = FALSE
    /\ vector_called = FALSE
    /\ response = NoResponse
    /\ vector_result = <<>>
    /\ keyword_called = FALSE
    /\ keyword_result = <<>>
    /\ relevant_context = <<>>
    /\ prompt = NoPrompt
    /\ result = NoResult
    /\ kb = load_weather_knowledge
    /\ pinecone_init = NoInit
    /\ index_io = 0
    /\ llm_calls = 0
    /\ completion = NoResponse
    /\ calls = <<>>
    /\ variants = NoVariants

\* _local_knowledge_search(q), _local_knowledge_search(q.upper()) and
\* _local_knowledge_search(q.lower()), each with the default top_k
CaseSearch ==
    /\ pc = "case_query"
    /\ variants' = [plain |-> local_knowledge_search(query, top_k_default),
                    upper |-> local_knowledge_search(Upper(query), top_k_default),
                    lower |-> local_knowledge_search(Lower(query), top_k_default)]
    /\ pc' = "case_searched"
    /\ UNCHANGED <<index, client, upload, query, weather_data, encoded, vector_called,
                   response, vector_result, keyword_called, keyword_result,
                   relevant_context, prompt, result, kb, pinecone_init, index_io,
                   llm_calls, completion, calls>>

NextCase == CaseSearch

SpecCase == InitCase /\ [][NextCase]_vars

(***************************************************************************)
(* Properties.                                                             *)
(***************************************************************************)
StartsWith(s, pre) == Len(s) >= Len(pre) /\ SubSeq(s, 1, Len(pre)) = pre
EndsWith(s, suf) == Len(s) >= Len(suf) /\ SubSeq(s, Len(s) - Len(suf) + 1, Len(s)) = suf

InCall == pc \in {"generating", "returned"}

\* C1: answer_question always ends by returning a string: whatever the query,
\* the reading and the state of the index and of the generative backend, no
\* exception crosses its boundary (a failed encode, retrieve or generate step
\* becomes an answer), and the generation step can always complete.
AnswerIsAlwaysReturned ==
    /\ pc = "returned" => result.kind = "return" /\ Len(result.value) >= 0
    /\ pc = "generating" => ENABLED AnswerGenerate

\* C1 witness: the encode step raised and the caller got an answer string
EncodeFailureAnswered ==
    pc = "returned" /\ ~encoded /\ result.kind = "return" /\ Len(result.value) > 0

\* C2 (as claimed): the returned answer is never the empty string, on every
\* path, an empty completion of the generative backend included.
AnswerNeverEmpty ==
    pc = "returned" => result.kind = "return" /\ result.value # ""

\* C3: the keyword search is invoked exactly when the vector query returned
\* nothing (index not configured, call failed, no match), and the passages handed
\* to generate_response are the vector result when it is non-empty and the
\* keyword result otherwise, never a merge of the two.
ExactlyOneRetrievalPath ==
    /\ InCall /\ ~encoded => ~vector_called /\ ~keyword_called
    /\ InCall /\ encoded =>
          /\ vector_called
          /\ keyword_called <=> (vector_result = <<>>)
          /\ vector_result # <<>> => relevant_context = vector_result
          /\ vector_result = <<>> => relevant_context = keyword_result

\* C3 witness: a configured index answered with no usable match and the keyword
\* search supplied the passages
FallbackAfterEmptyVector ==
    /\ pc = "generating" /\ index = "Index" /\ response.kind = "ok"
    /\ vector_result = <<>> /\ keyword_called /\ relevant_context # <<>>

\* C4 (as claimed): at most 3 passages are handed to generation on either path,
\* whatever the external index returns in its matches.
AtMostTopKPassages ==
    InCall => Len(relevant_context) <= top_k_default

\* C4 (amended): the keyword path hands over at most 3 passages; the vector
\* path hands over one passage per match of the index's response, untruncated,
\* hence at most 3 exactly when the index returned at most 3 matches.
PassageCountByPath ==
    InCall /\ encoded =>
        /\ keyword_called => Len(relevant_context) <= top_k_default
        /\ ~keyword_called => Len(relevant_context) = Len(response.matches)

\* C4 witness: the index returned more than top_k matches and all were passed on
VectorPathOverTopK ==
    pc = "generating" /\ ~keyword_called /\ Len(relevant_context) > top_k_default

\* C5 (as claimed): after a failed start-up upload (upsert_knowledge returned
\* False, the index disabled or the upsert raising on a configured index),
\* queries are served and every one of them takes the keyword path.
FailedUploadForcesKeywordPath ==
    upload = "False" /\ InCall /\ encoded =>
        keyword_called /\ relevant_context = keyword_result

\* what the claimed block reads: the value, or the placeholder of a missing or null field
PlaceholderOr(d, key, placeholder) ==
    IF key \in DOMAIN d /\ d[key].t # "none" THEN Format(d[key]) ELSE placeholder

ExpectedWeatherBlock(d) ==
    "\nCurrent Weather Data:\n"
    \o "- Location: " \o PlaceholderOr(d, "city", "Unknown") \o "\n"
    \o "- Temperature: " \o PlaceholderOr(d, "temperature", "N/A") \o "°F\n"
    \o "- Weather: " \o PlaceholderOr(d, "weather", "N/A") \o "\n"
    \o "- Humidity: " \o PlaceholderOr(d, "humidity", "N/A") \o "%\n"
    \o "- Wind Speed: " \o PlaceholderOr(d, "wind_speed", "N/A") \o " mph\n"

\* C6 (as claimed): for a present reading, whichever of the five fields are
\* missing or null, the prompt is assembled and holds the five-line weather
\* block with a placeholder for each missing or null field.
WeatherBlockAlwaysComplete ==
    pc = "returned" /\ encoded /\ client = "Client" /\ weather_data.t = "dict" =>
        /\ prompt.state = "built"
        /\ StartsWith(prompt.text, PromptHead \o ExpectedWeatherBlock(weather_data.d))

\* C7 (as claimed): the prompt holds a weather block also when the reading is
\* absent (None).
AbsentReadingHasWeatherBlock ==
    pc = "returned" /\ encoded /\ client = "Client" /\ weather_data.t = "none" =>
        /\ prompt.state = "built"
        /\ StartsWith(prompt.text, PromptHead \o "\nCurrent Weather Data:\n")

\* C7 (amended): with the reading absent (None) prompt assembly does not fail
\* and the prompt holds no weather block: its weather section is empty, the
\* knowledge section follows the opening directly.
AbsentReadingOmitsWeatherBlock ==
    pc = "returned" /\ encoded /\ client = "Client" /\ weather_data.t = "none" =>
        /\ prompt.state = "built"
        /\ StartsWith(prompt.text, PromptHead \o "\n\nRelevant Knowledge:\n")

\* C7 witness: a prompt was assembled for a query without a reading
AbsentReadingPromptBuilt ==
    pc = "returned" /\ weather_data.t = "none" /\ prompt.state = "built"

HasContent(passages, text) == \E i \in 1..Len(passages) : passages[i].content = text

\* the vector index is unavailable to the query in progress: never configured,
\* or its call failed
IndexUnavailable == InCall /\ encoded /\ (index = "None" \/ response.kind = "raise")

\* C8 (as claimed): scenario A, the Denver question with the vector index
\* unavailable: the passages handed to generation include the
\* temp_clothing_cold entry and the denver entry.
ScenarioAIncludesDenverEntry ==
    IndexUnavailable /\ query = DenverQuery =>
        /\ HasContent(relevant_context, knowledge_data[1].content)
        /\ HasContent(relevant_context, knowledge_data[11].content)

\* C8 (amended): scenario A: both entries match the query, and the passages
\* handed to generation are the first three matches in corpus order,
\* temp_clothing_cold, temp_clothing_cool and temp_clothing_mild: the
\* temp_clothing_cold entry is among them, the denver entry is cut off.
ScenarioAFirstThreeInCorpusOrder ==
    IndexUnavailable /\ query = DenverQuery =>
        /\ item_matches(knowledge_data[1], Split(Lower(query)))
        /\ item_matches(knowledge_data[11], Split(Lower(query)))
        /\ relevant_context = <<local_passage(knowledge_data[1]),
                                local_passage(knowledge_data[2]),
                                local_passage(knowledge_data[3])>>
        /\ ~HasContent(relevant_context, knowledge_data[11].content)

\* C8 witness: scenario A has run to its answer
ScenarioAReached ==
    /\ pc = "returned" /\ encoded /\ query = DenverQuery /\ index = "None"
    /\ weather_data = DenverReading /\ keyword_called
    /\ HasContent(relevant_context, knowledge_data[1].content)

\* C9: scenario B: a query without any word, no reading, index and generative
\* backend unconfigured, the query encoded: the keyword search returns the empty
\* list and the answer is exactly the "not configured" message.
ScenarioBNotConfigured ==
    /\ pc = "returned" /\ encoded /\ Split(Lower(query)) = <<>>
    /\ weather_data.t = "none" /\ index = "None" /\ client = "None"
    => /\ keyword_called
       /\ keyword_result = <<>>
       /\ result = [kind |-> "return", value |-> NotConfiguredMessage]

\* C9 witness: scenario B has run with a whitespace-only query
ScenarioBReached ==
    /\ pc = "returned" /\ encoded /\ query = " \t " /\ weather_data.t = "none"
    /\ index = "None" /\ client = "None" /\ keyword_called
    /\ result.value = NotConfiguredMessage

\* the passages the index's response stands for, in the order received
ReceivedPassages ==
    [i \in 1..Len(response.matches) |->
        [content  |-> response.matches[i].metadata.content,
         score    |-> response.matches[i].score,
         category |-> response.matches[i].metadata.category]]

RECURSIVE BulletsOf(_, _)
BulletsOf(ms, i) ==
    IF i > Len(ms) THEN ""
    ELSE IF i = Len(ms) THEN "- " \o ms[i].metadata.content
    ELSE "- " \o ms[i].metadata.content \o "\n" \o BulletsOf(ms, i + 1)

\* C10: scenario C: when the vector index returns a non-empty sequence of
\* passages, exactly those, in the order received, are handed to prompt
\* assembly and rendered as the prompt's bullets in that order.
ScenarioCOrderPreserved ==
    InCall /\ vector_result # <<>> =>
        /\ response.kind = "ok"
        /\ relevant_context = ReceivedPassages
        /\ pc = "returned" /\ client = "Client" =>
              /\ prompt.state = "built"
              /\ EndsWith(prompt.text,
                          "\n\nRelevant Knowledge:\n" \o BulletsOf(response.matches, 1)
                          \o "\n\nUser Question: " \o query \o PromptTail)

\* C10 witness: the three matches of scenario C, scores 0.91, 0.85, 0.60, were
\* received in that order and a prompt was assembled from them
ScenarioCReached ==
    /\ pc = "returned" /\ prompt.state = "built"
    /\ response = [kind |-> "ok",
                   matches |-> <<Match(1, 91), Match(11, 85), Match(7, 60)>>]
    /\ Len(relevant_context) = 3
\* C11 (as claimed): the keyword search is case-insensitive: a query, its
\* upper-cased form and its lower-cased form return the identical list
CaseVariantsAgree ==
    pc = "case_searched" =>
        /\ variants.upper = variants.plain
        /\ variants.lower = variants.plain

\* C12: when the index credential is absent or the initialization fails at
\* construction, the index handle is None and stays None: whatever sequence
\* of upsert_knowledge and search_knowledge calls follows, the initialization
\* is not run again, no call reaches the index service, every search returns
\* the empty list and every upsert returns False
UnavailableIndexStaysUnavailable ==
    /\ [](pc # "pm_new" /\ pinecone_init.outcome # "ok" =>
            /\ index = "None"
            /\ index_io = 0
            /\ (pc = "pm_searched" => vector_result = <<>>)
            /\ (pc = "pm_upserted" => upload = "False"))
    /\ [][pc # "pm_new" /\ pinecone_init.outcome # "ok" =>
            /\ index' = "None"
            /\ pinecone_init' = pinecone_init]_vars

\* C12 witness: a manager whose initialization raised has been asked to
\* upsert and then to search
FailedInitUpsertedAndSearched ==
    /\ pinecone_init = [attempts |-> 1, outcome |-> "raise"]
    /\ upload = "False"
    /\ pc = "pm_searched"

\* C13: one invocation of generate_response calls the generation backend not
\* at all when no credential is configured, and then returns the fixed
\* not-configured message, and at most once otherwise; a call that raises is
\* not repeated, and its error text comes back inside the answer string
AtMostOneGenerationCall ==
    pc = "returned" /\ encoded =>
        /\ (client = "None" =>
                /\ llm_calls = 0
                /\ result = return_response(NotConfiguredMessage))
        /\ llm_calls <= 1
        /\ (completion.kind = "raise" =>
                /\ llm_calls = 1
                /\ result.kind = "return"
                /\ result.value = GenerateErrorPrefix \o completion.msg
                /\ Contains(result.value, completion.msg))

\* C13 witness: the one call of the backend raised a connection error and
\* the answer has been returned
GenerationCallRaisedOnce ==
    /\ pc = "returned"
    /\ encoded
    /\ client = "Client"
    /\ completion = [kind |-> "raise", msg |-> "Connection error."]
    /\ llm_calls = 1

\* C14: answer_question keeps no mutable state across queries: however the
\* calls interleave at the generation suspension point, the corpus, the
\* index handle and the generative client stay as they were, and the
\* passages retrieved for a query are those it retrieves when it runs alone
NoCrossQueryState ==
    /\ [](\A i \in 1..MaxCalls :
            calls[i].pc = "suspended" =>
                calls[i].relevant_context =
                    retrieve(search_knowledge(index, calls[i].response),
                             calls[i].query).relevant_context)
    /\ [][kb' = kb /\ index' = index /\ client' = client]_vars

\* C14 witness: two calls are suspended at the generation step at once, both
\* having taken the keyword path over the shared corpus with different
\* queries
TwoCallsSuspended ==
    \E i, j \in 1..MaxCalls :
        /\ i # j
        /\ calls[i].pc = "suspended" /\ calls[j].pc = "suspended"
        /\ calls[i].query = "SNOW tires" /\ calls[j].query = "rain"
        /\ calls[i].response.kind = "raise"
        /\ calls[j].response = [kind |-> "ok", matches |-> <<>>]
        /\ calls[i].relevant_context # calls[j].relevant_context
        /\ Len(calls[j].relevant_context) > 0

====
